---- MODULE Spec2Model ----
(***************************************************************************)
(* Model of the shared Memory Context Manager of the AgentCore examples    *)
(* (src/agentcore-pydantic-ai/memory.py): MemoryManager with its session   *)
(* initialization tracker, the context retriever and the three write paths.*)
(* The remote memory store (bedrock_agentcore MemoryClient) is the          *)
(* environment: every store call either completes with a result drawn from *)
(* a small set or fails with an error or a timeout.                         *)
(***************************************************************************)
EXTENDS Integers, Sequences, FiniteSets, TLC

VARIABLES
    initialized_sessions, \* MemoryManager._initialized_sessions: dict session_key -> bool
    history_reads,        \* <<actor_id, session_id>> -> number of get_last_k_turns calls so far
    op,                   \* the most recent handler invocation: its name and arguments
    ret,                  \* what that invocation returned
    raised,               \* TRUE iff that invocation raised to its caller
    calls,                \* the store calls that invocation issued, in order, with outcomes
    pc,                   \* concurrent requests: position of each inside get_memory_context
    req,                  \* concurrent requests: arguments and locals of each
    cached_config,        \* MemoryConfig._cached_config (class attribute)
    cached_path,          \* MemoryConfig._cached_path (class attribute)
    files,                \* the file system: config path -> state of the file
    config_log,           \* every MemoryConfig construction so far, with what it did
    config_ret,           \* outcome of the most recent configuration operation
    agent,                \* Strands agent.py: the module-level agent (None until created)
    agent_instance,       \* LlamaIndex main.py: the module-level agent_instance
    memory_manager,       \* LlamaIndex main.py: the module-level memory_manager
    agent_runs            \* the agent runs of the request in progress, as the agent saw them

manager_vars == <<initialized_sessions, history_reads, op, ret, raised, calls, pc, req>>
config_vars == <<cached_config, cached_path, files, config_log, config_ret>>
adapter_vars == <<agent, agent_instance, memory_manager, agent_runs>>
vars == <<initialized_sessions, history_reads, op, ret, raised, calls, pc, req, cached_config, cached_path, files, config_log, config_ret, agent, agent_instance, memory_manager, agent_runs>>

(***************************************************************************)
(* Bounds of the model.                                                    *)
(***************************************************************************)
MaxBatch == 2      \* longest raw message batch handed to store_new_messages
MaxFacts == 2      \* longest fact list handed to store_facts
NumRequests == 2   \* concurrent in-flight requests
MaxPromptParts == 3  \* pieces appended to one agent's system prompt
MaxConfigs == 3    \* MemoryConfig constructions in one process

(***************************************************************************)
(* Python values.  A value that may or may not be a str is tagged, so that *)
(* isinstance(content, str) is something the model can ask.                *)
(***************************************************************************)
PyStr(s) == [t |-> "str", s |-> s]
PyInt(n) == [t |-> "int", n |-> n]
PyNone == [t |-> "none"]
PyObj == [t |-> "obj"]          \* an object json.dumps cannot serialize

IsStr(v) == v.t = "str"

\* Python truthiness of a value (`not v` is ~Truthy(v)).
Truthy(v) ==
    CASE v.t = "str" -> v.s # ""
      [] v.t = "int" -> v.n # 0
      [] v.t = "none" -> FALSE
      [] OTHER -> TRUE

\* json.dumps(content): raises TypeError on an object that is not serializable.
JsonRaises(v) == v.t = "obj"

JsonDumps(v) ==
    CASE v.t = "str" -> PyStr("\"" \o v.s \o "\"")
      [] v.t = "int" -> PyStr(ToString(v.n))
      [] v.t = "none" -> PyStr("null")
      [] OTHER -> PyStr("")

\* `x or default` for an Optional[str] argument: None and "" both give the default.
OrDefault(x, default) == IF x = "" THEN default ELSE x

\* MemoryManager.__init__ defaults.
default_actor_id == "default-user"
default_session_id == "default-session"
max_conversation_turns == 100

\* f"{actor_id}:{session_id}"
SessionKeyOf(actor_id, session_id) == actor_id \o ":" \o session_id

\* f"/actor/{actor_id}/"
NamespaceOf(actor_id) == "/actor/" \o actor_id \o "/"

\* dict.get(key, False) on _initialized_sessions
IsInitialized(sessions, key) ==
    IF key \in DOMAIN sessions THEN sessions[key] ELSE FALSE

\* _initialized_sessions[session_key] = True
MarkInitialized(sessions, key) ==
    [k \in DOMAIN sessions \cup {key} |-> IF k = key THEN TRUE ELSE sessions[k]]

(***************************************************************************)
(* Insertion-ordered dicts with string keys: sequences of <<key, value>>.  *)
(***************************************************************************)
DictKeys(d) == {d[i][1] : i \in DOMAIN d}
DictHas(d, k) == k \in DictKeys(d)
DictGet(d, k) == LET i == CHOOSE i \in DOMAIN d : d[i][1] = k IN d[i][2]

\* {**base, **upd}: keys of base keep their position and take upd's value,
\* new keys of upd are appended in upd's order.
RECURSIVE DictAppendNew(_, _)
DictAppendNew(base, upd) ==
    IF upd = <<>> THEN base
    ELSE IF DictHas(base, upd[1][1]) THEN DictAppendNew(base, Tail(upd))
         ELSE DictAppendNew(Append(base, upd[1]), Tail(upd))

DictUpdate(base, upd) ==
    DictAppendNew(
        [i \in DOMAIN base |->
            IF DictHas(upd, base[i][1]) THEN <<base[i][1], DictGet(upd, base[i][1])>>
            ELSE base[i]],
        upd)

(***************************************************************************)
(* Store calls as the MemoryClient sees them.  outcome is "ok", "error" or *)
(* "timeout"; the last two are exceptions raised by the client.            *)
(***************************************************************************)
Outcomes == {"ok", "error", "timeout"}
Failed(outcome) == outcome # "ok"

CreateEventCall(actor_id, session_id, messages, outcome) ==
    [call |-> "create_event", actor_id |-> actor_id, session_id |-> session_id,
     messages |-> messages, outcome |-> outcome]

StoreMemoriesCall(namespace, memories, outcome) ==
    [call |-> "store_memories", namespace |-> namespace, memories |-> memories,
     outcome |-> outcome]

\* An answer of the store to a read: its outcome and, when "ok", the data.
Answer(outcome, data) == [outcome |-> outcome, data |-> data]

GetLastKTurnsCall(actor_id, session_id, k, answer) ==
    [call |-> "get_last_k_turns", actor_id |-> actor_id, session_id |-> session_id,
     k |-> k, outcome |-> answer.outcome, returned |-> answer.data]

RetrieveMemoriesCall(namespace, query, answer) ==
    [call |-> "retrieve_memories", namespace |-> namespace, query |-> query,
     outcome |-> answer.outcome, returned |-> answer.data]

\* What a handler hands back: a return value, or an exception, and the store
\* calls it issued.
Returned(value, issued) == [ret |-> value, raised |-> FALSE, calls |-> issued]
Raised(issued) == [ret |-> FALSE, raised |-> TRUE, calls |-> issued]

(***************************************************************************)
(* MemoryManager.store_conversation                                        *)
(***************************************************************************)
\* Variant: the guard of line 274 written with `and`, so that one empty side
\* is let through.
store_conversation_result_AndGuard(user_input, response, actor_id, session_id, outcome) ==
    IF ~Truthy(user_input) /\ ~Truthy(response)
    THEN Returned(FALSE, <<>>)
    ELSE LET a == OrDefault(actor_id, default_actor_id)
             s == OrDefault(session_id, default_session_id)
             c == CreateEventCall(a, s, << <<user_input, "USER">>, <<response, "ASSISTANT">> >>, outcome)
         IN  IF Failed(outcome) THEN Returned(FALSE, <<c>>) ELSE Returned(TRUE, <<c>>)

\* Variant: the two messages written as two events.
store_conversation_result_Split(user_input, response, actor_id, session_id, outcome) ==
    IF ~Truthy(user_input) \/ ~Truthy(response)
    THEN Returned(FALSE, <<>>)
    ELSE LET a == OrDefault(actor_id, default_actor_id)
             s == OrDefault(session_id, default_session_id)
             c1 == CreateEventCall(a, s, << <<user_input, "USER">> >>, outcome)
             c2 == CreateEventCall(a, s, << <<response, "ASSISTANT">> >>, outcome)
         IN  IF Failed(outcome) THEN Returned(FALSE, <<c1>>) ELSE Returned(TRUE, <<c1, c2>>)

store_conversation_result(user_input, response, actor_id, session_id, outcome) ==
    IF ~Truthy(user_input) \/ ~Truthy(response)
    THEN Returned(FALSE, <<>>)
    ELSE LET a == OrDefault(actor_id, default_actor_id)
             s == OrDefault(session_id, default_session_id)
             messages_to_store == << <<user_input, "USER">>, <<response, "ASSISTANT">> >>
             c == CreateEventCall(a, s, messages_to_store, outcome)
         IN  IF Failed(outcome)
             THEN Returned(FALSE, <<c>>)     \* except Exception: return False
             ELSE Returned(TRUE, <<c>>)

(***************************************************************************)
(* Python's str(x) and the f-string rendering of a value.                  *)
(***************************************************************************)
StrOf(v) ==
    CASE v.t = "str" -> v.s
      [] v.t = "int" -> ToString(v.n)
      [] v.t = "none" -> "None"
      [] OTHER -> "<object>"

(***************************************************************************)
(* What the store returns.  A stored message is a dict; `has` is its key   *)
(* set, so that message['role'] on a dict without the key raises KeyError. *)
(***************************************************************************)
Msg(role, content) == [has |-> {"role", "content"}, role |-> role, content |-> content]
MsgNoRole(content) == [has |-> {"content"}, role |-> "", content |-> content]

\* Texts beginning with '{' that the model uses, with str(json.loads(text)) for
\* the ones that parse (a Python dict repr) and nothing for the ones that do not.
JsonObjectText == "{\"a\": 1}"
JsonObjectRepr == "{'a': 1}"
BrokenJsonText == "{oops"
StartsWithBrace(s) == s \in {JsonObjectText, BrokenJsonText}
JsonLoadsFails(s) == s # JsonObjectText

\* lines 427-432: a str content starting with '{' is replaced by the repr of
\* its parsed form when it parses, and kept when json.loads fails.
DecodedContent(content) ==
    IF IsStr(content) /\ StartsWithBrace(content.s)
    THEN IF JsonLoadsFails(content.s) THEN content ELSE PyStr(JsonObjectRepr)
    ELSE content

\* One message of a turn: the "ROLE: text" line, or nothing when reading
\* message['role'] or message['content'] raises (caught, the message is skipped).
MessageLines(message) ==
    IF "role" \notin message.has \/ "content" \notin message.has
    THEN <<>>
    ELSE << message.role \o ": " \o StrOf(DecodedContent(message.content)) >>

RECURSIVE TurnLines(_)
TurnLines(turn) ==
    IF turn = <<>> THEN <<>>
    ELSE MessageLines(Head(turn)) \o TurnLines(Tail(turn))

\* Variant: the store's order kept.
Reversed_AsReturned(seq) == seq

\* reversed(conversations)
Reversed(seq) == [i \in DOMAIN seq |-> seq[Len(seq) + 1 - i]]

RECURSIVE FlattenTurns(_)
FlattenTurns(turns) ==
    IF turns = <<>> THEN <<>>
    ELSE TurnLines(Head(turns)) \o FlattenTurns(Tail(turns))

\* sep.join(parts)
RECURSIVE Join(_, _)
Join(sep, parts) ==
    IF parts = <<>> THEN ""
    ELSE IF Len(parts) = 1 THEN parts[1]
         ELSE parts[1] \o sep \o Join(sep, Tail(parts))

(***************************************************************************)
(* MemoryManager._load_conversation_context: the history text, and the     *)
(* get_last_k_turns call it issued.  answer.data is what the store returns *)
(* (newest turn first) when the call completes.                            *)
(***************************************************************************)
\* Variant: the store call outside the try block, so that its failure
\* propagates.
load_conversation_context_Raises(actor_id, session_id, answer) ==
    LET c == GetLastKTurnsCall(actor_id, session_id, max_conversation_turns, answer)
    IN  IF Failed(answer.outcome)
        THEN Raised(<<c>>)
        ELSE IF answer.data = <<>>
             THEN Returned("", <<c>>)
             ELSE Returned(Join("\n", FlattenTurns(Reversed(answer.data))), <<c>>)

load_conversation_context(actor_id, session_id, answer) ==
    LET c == GetLastKTurnsCall(actor_id, session_id, max_conversation_turns, answer)
        conversations == answer.data
    IN  IF Failed(answer.outcome)
        THEN Returned("", <<c>>)             \* except Exception: return ""
        ELSE IF conversations = <<>>
             THEN Returned("", <<c>>)
             ELSE Returned(Join("\n", FlattenTurns(Reversed(conversations))), <<c>>)

(***************************************************************************)
(* ShortMemoryHook.on_agent_initialized (Strands adapter): the agent's     *)
(* system prompt after the hook.  A message without 'role' or 'content'    *)
(* raises KeyError out of the hook: the loop has no try around it, and the *)
(* content is formatted as it is.                                          *)
(***************************************************************************)
hook_last_k_turns == 100

HookMessageRaises(message) == "role" \notin message.has \/ "content" \notin message.has

HookRaises(conversations) ==
    \E i \in DOMAIN conversations : \E j \in DOMAIN conversations[i] :
        HookMessageRaises(conversations[i][j])

HookTurnLines(turn) == [j \in DOMAIN turn |-> turn[j].role \o ": " \o StrOf(turn[j].content)]

RECURSIVE HookFlattenTurns(_)
HookFlattenTurns(turns) ==
    IF turns = <<>> THEN <<>>
    ELSE HookTurnLines(Head(turns)) \o HookFlattenTurns(Tail(turns))

on_agent_initialized_result(system_prompt, actor_id, session_id, answer) ==
    LET c == GetLastKTurnsCall(actor_id, session_id, hook_last_k_turns, answer)
        conversations == IF Failed(answer.outcome) THEN <<>> ELSE answer.data
        prompt == IF system_prompt = PyNone THEN "" ELSE system_prompt.s
    IN  IF conversations = <<>>
        THEN Returned(system_prompt, <<c>>)
        ELSE IF HookRaises(conversations)
             THEN Raised(<<c>>)
             ELSE Returned(PyStr(prompt \o "\n\nRecent conversation:\n"
                                 \o Join("\n", HookFlattenTurns(Reversed(conversations)))),
                           <<c>>)

(***************************************************************************)
(* retrieve_memories_for_actor                                             *)
(***************************************************************************)
\* Variant: a failed query is issued a second time.
retrieve_memories_for_actor_Retry(actor_id, search_query, answer) ==
    LET c == RetrieveMemoriesCall(NamespaceOf(actor_id), search_query, answer)
    IN  IF Failed(answer.outcome)
        THEN Returned(<<>>, <<c, c>>)
        ELSE Returned(answer.data, <<c>>)

retrieve_memories_for_actor(actor_id, search_query, answer) ==
    LET c == RetrieveMemoriesCall(NamespaceOf(actor_id), search_query, answer)
    IN  IF Failed(answer.outcome)
        THEN Returned(<<>>, <<c>>)           \* except Exception: return []
        ELSE Returned(answer.data, <<c>>)

(***************************************************************************)
(* format_memory_context                                                   *)
(***************************************************************************)
Memory(content, metadata) == [content |-> content, metadata |-> metadata]

RECURSIVE MetadataItems(_)
MetadataItems(metadata) ==
    IF metadata = <<>> THEN <<>>
    ELSE << metadata[1][1] \o ": " \o metadata[1][2] >> \o MetadataItems(Tail(metadata))

\* Variant: the metadata suffix on every entry.
MemoryEntry_AlwaysSuffix(i, memory) ==
    ToString(i) \o ". " \o memory.content
        \o " (Metadata: " \o Join(", ", MetadataItems(memory.metadata)) \o ")"

MemoryEntry(i, memory) ==
    LET memory_entry == ToString(i) \o ". " \o memory.content
    IN  IF memory.metadata # <<>>
        THEN memory_entry \o " (Metadata: " \o Join(", ", MetadataItems(memory.metadata)) \o ")"
        ELSE memory_entry

format_memory_context(memories) ==
    IF memories = <<>> THEN "No relevant memories found."
    ELSE Join("\n", [i \in DOMAIN memories |-> MemoryEntry(i, memories[i])])

(***************************************************************************)
(* MemoryManager.get_memory_context: its result and the tracker after it.  *)
(* hAnswer and mAnswer are what the store answers to the recent-turns read *)
(* and to the relevance query, should the call issue them.                 *)
(***************************************************************************)
\* Variant: the tracker is not consulted.
ShouldLoadHistory_IgnoreTracker(sessions, session_key, load_conversation_context_flag) ==
    load_conversation_context_flag

ShouldLoadHistory(sessions, session_key, load_conversation_context_flag) ==
    load_conversation_context_flag /\ ~IsInitialized(sessions, session_key)

\* Variant: the retrieve_relevant_memories option is not consulted.
ShouldRetrieve_IgnoreOption(retrieve_relevant_memories, user_input) ==
    user_input # ""

ShouldRetrieve(retrieve_relevant_memories, user_input) ==
    retrieve_relevant_memories /\ user_input # ""

\* Variant: line 234 forgotten.
SessionsAfterLoad_NoMark(sessions, session_key) == sessions

SessionsAfterLoad(sessions, session_key) == MarkInitialized(sessions, session_key)

\* Variant: the blocks separated by a line break only.
JoinedContext_NoBlankLine(context_parts) ==
    IF context_parts # <<>> THEN Join("\n", context_parts) ELSE ""

\* line 251: "\n\n".join(context_parts) if context_parts else ""
JoinedContext(context_parts) ==
    IF context_parts # <<>> THEN Join("\n\n", context_parts) ELSE ""

\* Variant: the key is marked only when the read gave a history text.
get_memory_context_result_MarkOnSuccess(sessions, user_input, actor_id, session_id, load_flag, retrieve_flag, hAnswer, mAnswer) ==
    LET a == OrDefault(actor_id, default_actor_id)
        s == OrDefault(session_id, default_session_id)
        session_key == SessionKeyOf(a, s)
        doLoad == ShouldLoadHistory(sessions, session_key, load_flag)
        lc == IF doLoad THEN load_conversation_context(a, s, hAnswer)
              ELSE Returned("", <<>>)
        part1 == IF doLoad /\ ~lc.raised /\ lc.ret # ""
                 THEN << "Recent conversation:\n" \o lc.ret >> ELSE <<>>
        sessions1 == IF doLoad /\ ~lc.raised /\ lc.ret # ""
                     THEN SessionsAfterLoad(sessions, session_key) ELSE sessions
        doRetrieve == ~lc.raised /\ ShouldRetrieve(retrieve_flag, user_input)
        rm == IF doRetrieve THEN retrieve_memories_for_actor(a, user_input, mAnswer)
              ELSE Returned(<<>>, <<>>)
        part2 == IF doRetrieve /\ ~rm.raised /\ rm.ret # <<>>
                 THEN << "Relevant long-term memory context:\n" \o format_memory_context(rm.ret) >>
                 ELSE <<>>
        context_parts == part1 \o part2
        issued == lc.calls \o rm.calls
    IN  [ret |-> JoinedContext(context_parts),
         raised |-> lc.raised \/ rm.raised,
         calls |-> issued,
         sessions |-> sessions1]

get_memory_context_result(sessions, user_input, actor_id, session_id, load_flag, retrieve_flag, hAnswer, mAnswer) ==
    LET a == OrDefault(actor_id, default_actor_id)
        s == OrDefault(session_id, default_session_id)
        session_key == SessionKeyOf(a, s)
        doLoad == ShouldLoadHistory(sessions, session_key, load_flag)
        lc == IF doLoad THEN load_conversation_context(a, s, hAnswer)
              ELSE Returned("", <<>>)
        part1 == IF doLoad /\ ~lc.raised /\ lc.ret # ""
                 THEN << "Recent conversation:\n" \o lc.ret >> ELSE <<>>
        sessions1 == IF doLoad /\ ~lc.raised
                     THEN SessionsAfterLoad(sessions, session_key) ELSE sessions
        doRetrieve == ~lc.raised /\ ShouldRetrieve(retrieve_flag, user_input)
        rm == IF doRetrieve THEN retrieve_memories_for_actor(a, user_input, mAnswer)
              ELSE Returned(<<>>, <<>>)
        part2 == IF doRetrieve /\ ~rm.raised /\ rm.ret # <<>>
                 THEN << "Relevant long-term memory context:\n" \o format_memory_context(rm.ret) >>
                 ELSE <<>>
        context_parts == part1 \o part2
        issued == lc.calls \o rm.calls
    IN  [ret |-> JoinedContext(context_parts),
         raised |-> lc.raised \/ rm.raised,
         calls |-> issued,
         sessions |-> sessions1]


(***************************************************************************)
(* Raw framework messages handed to the normalizer.                        *)
(*   parts : an object with a non-empty or empty .parts list; hasKind says *)
(*           whether it has .kind, typeResponse whether its type name      *)
(*           contains "Response";                                          *)
(*   str   : a plain string;                                               *)
(*   dict  : a dict, with or without 'content' and 'role';                 *)
(*   other : anything else (a number, a tuple, None).                      *)
(***************************************************************************)
Part(hasContent, content, part_kind) ==
    [hasContent |-> hasContent, content |-> content, part_kind |-> part_kind]

PartsMsg(hasKind, kind, typeResponse, parts) ==
    [shape |-> "parts", hasKind |-> hasKind, kind |-> kind,
     typeResponse |-> typeResponse, parts |-> parts]

StrMsg(s) == [shape |-> "str", s |-> s]

DictMsg(hasContent, content, hasRole, role) ==
    [shape |-> "dict", hasContent |-> hasContent, content |-> content,
     hasRole |-> hasRole, role |-> role]

OtherMsg == [shape |-> "other"]

\* str(msg) of a dict message that has no 'content' key.
DictStr(msg) ==
    IF msg.hasRole THEN "{'role': '" \o msg.role \o "'}" ELSE "{}"

\* lines 455-468: the role of one part of a multi-part message.
PartRole(msg, part) ==
    IF msg.hasKind
    THEN IF msg.kind = "request"
         THEN IF part.part_kind = "user-prompt" THEN "USER"
              ELSE IF part.part_kind = "system-prompt" THEN "SYSTEM"
              ELSE "USER"
         ELSE IF msg.kind = "response" THEN "ASSISTANT"
         ELSE "ASSISTANT"
    ELSE IF msg.typeResponse THEN "ASSISTANT" ELSE "USER"

\* lines 470-473: the text of one part.
PartText(content) == IF IsStr(content) THEN content ELSE JsonDumps(content)

\* lines 451-474: the pairs of one multi-part message.  json.dumps raising on
\* a part ends the message (the exception is caught around the whole element);
\* the pairs appended for its earlier parts stay in the list.
RECURSIVE ConvertParts(_, _)
ConvertParts(msg, parts) ==
    IF parts = <<>> THEN <<>>
    ELSE LET part == Head(parts)
         IN  IF ~part.hasContent THEN ConvertParts(msg, Tail(parts))
             ELSE IF ~IsStr(part.content) /\ JsonRaises(part.content) THEN <<>>
             ELSE << <<PartText(part.content), PartRole(msg, part)>> >>
                  \o ConvertParts(msg, Tail(parts))

\* lines 448-488: the pairs one element contributes.
ConvertMessage(msg) ==
    IF msg.shape = "parts" /\ msg.parts # <<>> THEN ConvertParts(msg, msg.parts)
    ELSE IF msg.shape = "str" THEN << <<PyStr(msg.s), "USER">> >>
    ELSE IF msg.shape = "dict"
         THEN << << IF msg.hasContent THEN msg.content ELSE PyStr(DictStr(msg)),
                    IF msg.hasRole THEN msg.role ELSE "USER" >> >>
    ELSE <<>>

(***************************************************************************)
(* MemoryManager._convert_messages_for_storage                             *)
(***************************************************************************)
RECURSIVE convert_messages_for_storage(_)
convert_messages_for_storage(messages) ==
    IF messages = <<>> THEN <<>>
    ELSE ConvertMessage(Head(messages)) \o convert_messages_for_storage(Tail(messages))

(***************************************************************************)
(* MemoryManager.store_new_messages                                        *)
(***************************************************************************)
\* Variant: one event per converted message instead of one for the batch.
store_new_messages_result_PerMessage(new_messages, actor_id, session_id, outcome) ==
    IF new_messages = <<>>
    THEN Returned(TRUE, <<>>)
    ELSE LET a == OrDefault(actor_id, default_actor_id)
             s == OrDefault(session_id, default_session_id)
             messages_to_store == convert_messages_for_storage(new_messages)
         IN  IF messages_to_store # <<>>
             THEN Returned(~Failed(outcome),
                           [i \in DOMAIN messages_to_store |->
                               CreateEventCall(a, s, <<messages_to_store[i]>>, outcome)])
             ELSE Returned(FALSE, <<>>)

store_new_messages_result(new_messages, actor_id, session_id, outcome) ==
    IF new_messages = <<>>
    THEN Returned(TRUE, <<>>)
    ELSE LET a == OrDefault(actor_id, default_actor_id)
             s == OrDefault(session_id, default_session_id)
             messages_to_store == convert_messages_for_storage(new_messages)
             c == CreateEventCall(a, s, messages_to_store, outcome)
         IN  IF messages_to_store # <<>>
             THEN IF Failed(outcome)
                  THEN Returned(FALSE, <<c>>)    \* except Exception: return False
                  ELSE Returned(TRUE, <<c>>)
             ELSE Returned(FALSE, <<>>)

(***************************************************************************)
(* MemoryManager.store_facts.  metadata None is the empty dict.            *)
(***************************************************************************)
FactMetadata(metadata) == DictUpdate(<< <<"type", "semantic_fact">> >>, metadata)

FactRecords(facts, metadata) ==
    [i \in DOMAIN facts |-> Memory(facts[i], FactMetadata(metadata))]

\* Variant: no try/except around the store call.
store_facts_result_NoExcept(facts, actor_id, session_id, metadata, outcome) ==
    IF facts = <<>>
    THEN Returned(TRUE, <<>>)
    ELSE LET a == OrDefault(actor_id, default_actor_id)
             c == StoreMemoriesCall(NamespaceOf(a), FactRecords(facts, metadata), outcome)
         IN  IF Failed(outcome) THEN Raised(<<c>>) ELSE Returned(TRUE, <<c>>)

\* Variant: facts written to a namespace of the session.
store_facts_result_SessionScoped(facts, actor_id, session_id, metadata, outcome) ==
    IF facts = <<>>
    THEN Returned(TRUE, <<>>)
    ELSE LET a == OrDefault(actor_id, default_actor_id)
             s == OrDefault(session_id, default_session_id)
             c == StoreMemoriesCall(NamespaceOf(a) \o "session/" \o s \o "/",
                                    FactRecords(facts, metadata), outcome)
         IN  IF Failed(outcome) THEN Returned(FALSE, <<c>>) ELSE Returned(TRUE, <<c>>)

store_facts_result(facts, actor_id, session_id, metadata, outcome) ==
    IF facts = <<>>
    THEN Returned(TRUE, <<>>)
    ELSE LET a == OrDefault(actor_id, default_actor_id)
             s == OrDefault(session_id, default_session_id)
             c == StoreMemoriesCall(NamespaceOf(a), FactRecords(facts, metadata), outcome)
         IN  IF Failed(outcome)
             THEN Returned(FALSE, <<c>>)         \* except Exception: return False
             ELSE Returned(TRUE, <<c>>)


(***************************************************************************)
(* Inputs of the handlers and answers of the store.  "" as an actor or     *)
(* session id stands for an omitted (None) or empty argument.              *)
(***************************************************************************)
ActorIds == {"", "u1"}
SessionIds == {"", "s1"}
UserInputs == {"", "apples?"}
ConversationTexts == {PyStr(""), PyStr("hi"), PyStr("hello")}

SeqsUpTo(S, n) == UNION {[1..k -> S] : k \in 0..n}

Facts == {"fact A", "fact B"}
FactLists == SeqsUpTo(Facts, MaxFacts)
SystemPrompts == {PyNone, PyStr("Be brief.")}
Metadatas == { <<>>, << <<"source", "chat">> >>, << <<"type", "note">> >> }

RawMessages ==
    { StrMsg("hello"),
      DictMsg(TRUE, PyStr("from dict"), TRUE, "ASSISTANT"),
      DictMsg(FALSE, PyNone, FALSE, ""),
      PartsMsg(TRUE, "request", FALSE,
               << Part(TRUE, PyStr("be brief"), "system-prompt"),
                  Part(TRUE, PyStr("question"), "user-prompt") >>),
      PartsMsg(TRUE, "response", TRUE, << Part(TRUE, PyInt(7), "text") >>),
      PartsMsg(TRUE, "response", TRUE,
               << Part(TRUE, PyStr("partial"), "text"), Part(TRUE, PyObj, "tool-call") >>),
      OtherMsg }
Batches == SeqsUpTo(RawMessages, MaxBatch)

HistoryResults ==
    { <<>>,
      << << Msg("USER", PyStr("hi")), Msg("ASSISTANT", PyStr("hello")) >> >>,
      << << Msg("USER", PyStr("bye")), MsgNoRole(PyStr("lost")) >>,
         << Msg("USER", PyStr("hi")), Msg("ASSISTANT", PyStr(JsonObjectText)) >> >> }
MemoryResults ==
    { <<>>,
      << Memory("I like apples", <<>>) >>,
      << Memory("I like apples", <<>>),
         Memory("Lives in Rome", << <<"type", "semantic_fact">>, <<"source", "chat">> >>) >> }

ReadAnswers(results) ==
    {Answer("ok", d) : d \in results} \cup {Answer(o, <<>>) : o \in Outcomes \ {"ok"}}
HistoryAnswers == ReadAnswers(HistoryResults)
MemoryAnswers == ReadAnswers(MemoryResults)
NoAnswer == Answer("ok", <<>>)

Requests == 1..NumRequests

\* history_reads after the store calls `issued`: one more read for every
\* get_last_k_turns call among them, under the ids the call carried.
RECURSIVE RecordReads(_, _)
RecordReads(reads, issued) ==
    IF issued = <<>> THEN reads
    ELSE LET c == Head(issued)
             k == <<c.actor_id, c.session_id>>
             reads1 == IF c.call = "get_last_k_turns"
                       THEN [x \in DOMAIN reads \cup {k} |->
                               IF x = k THEN (IF k \in DOMAIN reads THEN reads[k] ELSE 0) + 1
                               ELSE reads[x]]
                       ELSE reads
         IN  RecordReads(reads1, Tail(issued))

(***************************************************************************)
(* MemoryConfig.  The cache is a pair of class attributes, shared by every *)
(* instance.  A config file is missing, is not JSON, is a JSON object      *)
(* without "memory_id", or is valid; a valid file carries an id of its own.*)
(***************************************************************************)
DefaultConfigPath == "memory-config.json"
ConfigPaths == {DefaultConfigPath, "other-config.json"}
FileStates == {"missing", "invalid_json", "no_id", "valid"}

MemoryIdIn(path) == IF path = DefaultConfigPath THEN "mem-1" ELSE "mem-2"

\* json.load(f) of a file that parses.
FileConfig(path, state) ==
    IF state = "valid" THEN << <<"memory_id", MemoryIdIn(path)>> >>
    ELSE << <<"name", "demo">> >>

NoConfig == [is_none |-> TRUE, dict |-> <<>>]
SomeConfig(d) == [is_none |-> FALSE, dict |-> d]
NoPath == ""

\* lines 61-63: the cache answers this construction.
CacheHit(cache, cpath, path) == ~cache.is_none /\ cpath = path

\* MemoryConfig._load_config for config_path = path: the cache after it, the
\* exception it raised ("" for none) and whether it read the file's content.
load_config_result(cache, cpath, fs, path) ==
    IF CacheHit(cache, cpath, path)
    THEN [cached_config |-> cache, cached_path |-> cpath, raised |-> "", read |-> FALSE]
    ELSE IF fs[path] = "missing"
    THEN [cached_config |-> cache, cached_path |-> cpath,
          raised |-> "FileNotFoundError", read |-> FALSE]
    ELSE IF fs[path] = "invalid_json"
    THEN [cached_config |-> cache, cached_path |-> cpath,
          raised |-> "JSONDecodeError", read |-> TRUE]
    ELSE [cached_config |-> SomeConfig(FileConfig(path, fs[path])), cached_path |-> path,
          raised |-> "", read |-> TRUE]

\* The memory_id property (line 87) of any instance.
memory_id_result(cache) ==
    IF DictHas(cache.dict, "memory_id")
    THEN [raised |-> "", value |-> DictGet(cache.dict, "memory_id")]
    ELSE [raised |-> "KeyError", value |-> ""]

LogEntry(path, r) == [path |-> path, raised |-> r.raised, read |-> r.read]
NoConfigOp == [name |-> "none"]

\* The configuration side after the module-level MemoryManager() of an
\* adapter was built from a valid default file.
ConfigAfterManagerInit ==
    /\ files = [p \in ConfigPaths |-> "valid"]
    /\ cached_config = SomeConfig(FileConfig(DefaultConfigPath, "valid"))
    /\ cached_path = DefaultConfigPath
    /\ config_log = << [path |-> DefaultConfigPath, raised |-> "", read |-> TRUE] >>
    /\ config_ret = NoConfigOp

\* The adapters' module-level globals as the modules set them at import.
AdaptersAtImport ==
    /\ agent = PyNone
    /\ agent_instance = PyNone
    /\ memory_manager = PyNone
    /\ agent_runs = <<>>

(***************************************************************************)
(* State after MemoryManager.__init__ (lines 183-195): nothing initialized,*)
(* no request in flight.                                                   *)
(***************************************************************************)
\* No handler invocation is in progress or waiting to be taken by its caller.
Idle == [name |-> "idle"]

NoRequest == [user_input |-> "", actor_id |-> "", session_id |-> "", load |-> FALSE,
              context_parts |-> <<>>, ret |-> "", reads |-> 0]

Init ==
    /\ initialized_sessions = <<>>
    /\ history_reads = <<>>
    /\ op = Idle
    /\ ret = FALSE
    /\ raised = FALSE
    /\ calls = <<>>
    /\ pc = [p \in Requests |-> "idle"]
    /\ req = [p \in Requests |-> NoRequest]
    /\ ConfigAfterManagerInit
    /\ AdaptersAtImport

(***************************************************************************)
(* The handlers, called one at a time.                                     *)
(***************************************************************************)
GetMemoryContext(user_input, actor_id, session_id, load, retrieve, hAnswer, mAnswer) ==
    LET r == get_memory_context_result(initialized_sessions, user_input, actor_id,
                                       session_id, load, retrieve, hAnswer, mAnswer)
    IN  /\ op = Idle
        /\ initialized_sessions' = r.sessions
        /\ history_reads' = RecordReads(history_reads, r.calls)
        /\ op' = [name |-> "get_memory_context", user_input |-> user_input,
                  actor_id |-> actor_id, session_id |-> session_id,
                  load |-> load, retrieve |-> retrieve]
        /\ ret' = r.ret
        /\ raised' = r.raised
        /\ calls' = r.calls
        /\ UNCHANGED <<pc, req>>
        /\ UNCHANGED config_vars
        /\ UNCHANGED adapter_vars

StoreConversation(user_input, response, actor_id, session_id, outcome) ==
    LET r == store_conversation_result(user_input, response, actor_id, session_id, outcome)
    IN  /\ op = Idle
        /\ op' = [name |-> "store_conversation", user_input |-> user_input,
                  response |-> response, actor_id |-> actor_id, session_id |-> session_id]
        /\ ret' = r.ret
        /\ raised' = r.raised
        /\ calls' = r.calls
        /\ UNCHANGED <<initialized_sessions, history_reads, pc, req>>
        /\ UNCHANGED config_vars
        /\ UNCHANGED adapter_vars

StoreNewMessages(new_messages, actor_id, session_id, outcome) ==
    LET r == store_new_messages_result(new_messages, actor_id, session_id, outcome)
    IN  /\ op = Idle
        /\ op' = [name |-> "store_new_messages", new_messages |-> new_messages,
                  actor_id |-> actor_id, session_id |-> session_id]
        /\ ret' = r.ret
        /\ raised' = r.raised
        /\ calls' = r.calls
        /\ UNCHANGED <<initialized_sessions, history_reads, pc, req>>
        /\ UNCHANGED config_vars
        /\ UNCHANGED adapter_vars

StoreFacts(facts, actor_id, session_id, metadata, outcome) ==
    LET r == store_facts_result(facts, actor_id, session_id, metadata, outcome)
    IN  /\ op = Idle
        /\ op' = [name |-> "store_facts", facts |-> facts, actor_id |-> actor_id,
                  session_id |-> session_id, metadata |-> metadata]
        /\ ret' = r.ret
        /\ raised' = r.raised
        /\ calls' = r.calls
        /\ UNCHANGED <<initialized_sessions, history_reads, pc, req>>
        /\ UNCHANGED config_vars
        /\ UNCHANGED adapter_vars

\* The Strands hook, run when an agent is built for a request.  It reads with
\* the ids of the agent state and keeps no tracker.
OnAgentInitialized(system_prompt, actor_id, session_id, hAnswer) ==
    LET r == on_agent_initialized_result(system_prompt, actor_id, session_id, hAnswer)
    IN  /\ op = Idle
        /\ op' = [name |-> "on_agent_initialized", system_prompt |-> system_prompt,
                  actor_id |-> actor_id, session_id |-> session_id]
        /\ ret' = r.ret
        /\ raised' = r.raised
        /\ calls' = r.calls
        /\ UNCHANGED <<initialized_sessions, history_reads, pc, req>>
        /\ UNCHANGED config_vars
        /\ UNCHANGED adapter_vars

\* The caller takes the handler's result and goes on; the manager is ready for
\* the next call.  Handlers of one manager are called one at a time here.
Return ==
    /\ op # Idle
    /\ op' = Idle
    /\ ret' = FALSE
    /\ raised' = FALSE
    /\ calls' = <<>>
    /\ UNCHANGED <<initialized_sessions, history_reads, pc, req>>
    /\ UNCHANGED config_vars
    /\ UNCHANGED adapter_vars

Next ==
    \/ Return
    \/ \E user_input \in UserInputs, actor_id \in ActorIds, session_id \in SessionIds,
          load \in BOOLEAN, retrieve \in BOOLEAN,
          hAnswer \in HistoryAnswers, mAnswer \in MemoryAnswers :
          GetMemoryContext(user_input, actor_id, session_id, load, retrieve, hAnswer, mAnswer)
    \/ \E user_input \in ConversationTexts, response \in ConversationTexts,
          actor_id \in ActorIds, session_id \in SessionIds, outcome \in Outcomes :
          StoreConversation(user_input, response, actor_id, session_id, outcome)
    \/ \E new_messages \in Batches, actor_id \in ActorIds, session_id \in SessionIds,
          outcome \in Outcomes :
          StoreNewMessages(new_messages, actor_id, session_id, outcome)
    \/ \E facts \in FactLists, actor_id \in ActorIds, session_id \in SessionIds,
          metadata \in Metadatas, outcome \in Outcomes :
          StoreFacts(facts, actor_id, session_id, metadata, outcome)
    \/ \E system_prompt \in SystemPrompts, actor_id \in ActorIds, session_id \in SessionIds,
          hAnswer \in HistoryAnswers :
          OnAgentInitialized(system_prompt, actor_id, session_id, hAnswer)

Spec == Init /\ [][Next]_vars


(***************************************************************************)
(* Concurrent requests.  The entrypoint is a plain function, so the server *)
(* runs in-flight requests on separate threads that share one              *)
(* MemoryManager; get_memory_context takes no lock.  A request interleaves *)
(* with the others between reading the flag (line 227), the blocking       *)
(* history read (line 229), setting the flag (line 234) and the rest of    *)
(* the call (lines 236-251).                                               *)
(***************************************************************************)
ConcActorIds == {"u1"}
ConcSessionIds == {"", "s1"}
ConcUserInput == "apples?"
ConcHistoryAnswers ==
    { Answer("ok", << << Msg("USER", PyStr("hi")), Msg("ASSISTANT", PyStr("hello")) >> >>),
      Answer("error", <<>>) }
ConcMemoryAnswers == { Answer("ok", << Memory("I like apples", <<>>) >>) }

RequestKey(r) == SessionKeyOf(r.actor_id, r.session_id)

\* lines 221-225: resolve the ids, start with no context parts.
Begin(p, actor_id, session_id, load) ==
    /\ pc[p] = "idle"
    /\ req' = [req EXCEPT ![p] =
                  [user_input |-> ConcUserInput,
                   actor_id |-> OrDefault(actor_id, default_actor_id),
                   session_id |-> OrDefault(session_id, default_session_id),
                   load |-> load, context_parts |-> <<>>, ret |-> "", reads |-> 0]]
    /\ pc' = [pc EXCEPT ![p] = "check"]
    /\ UNCHANGED <<initialized_sessions, history_reads, op, ret, raised, calls>>
    /\ UNCHANGED config_vars
    /\ UNCHANGED adapter_vars

\* line 227: the test of the flag.
Check(p) ==
    /\ pc[p] = "check"
    /\ pc' = [pc EXCEPT ![p] =
                 IF ShouldLoadHistory(initialized_sessions, RequestKey(req[p]), req[p].load)
                 THEN "load" ELSE "retrieve"]
    /\ UNCHANGED <<initialized_sessions, history_reads, op, ret, raised, calls, req>>
    /\ UNCHANGED config_vars
    /\ UNCHANGED adapter_vars

\* lines 229-232: the history read and its block.
Load(p, hAnswer) ==
    /\ pc[p] = "load"
    /\ LET lc == load_conversation_context(req[p].actor_id, req[p].session_id, hAnswer)
       IN  /\ history_reads' = RecordReads(history_reads, lc.calls)
           /\ req' = [req EXCEPT
                        ![p].reads = @ + Len(lc.calls),
                        ![p].context_parts =
                            IF lc.ret # "" THEN Append(@, "Recent conversation:\n" \o lc.ret)
                            ELSE @]
    /\ pc' = [pc EXCEPT ![p] = "mark"]
    /\ UNCHANGED <<initialized_sessions, op, ret, raised, calls>>
    /\ UNCHANGED config_vars
    /\ UNCHANGED adapter_vars

\* line 234: the key is marked initialized.
Mark(p) ==
    /\ pc[p] = "mark"
    /\ initialized_sessions' = SessionsAfterLoad(initialized_sessions, RequestKey(req[p]))
    /\ pc' = [pc EXCEPT ![p] = "retrieve"]
    /\ UNCHANGED <<history_reads, op, ret, raised, calls, req>>
    /\ UNCHANGED config_vars
    /\ UNCHANGED adapter_vars

\* lines 236-251: the relevance query and the joined result.
Finish(p, mAnswer) ==
    /\ pc[p] = "retrieve"
    /\ LET rm == IF ShouldRetrieve(TRUE, req[p].user_input)
                 THEN retrieve_memories_for_actor(req[p].actor_id, req[p].user_input, mAnswer)
                 ELSE Returned(<<>>, <<>>)
           parts == IF rm.ret # <<>>
                    THEN Append(req[p].context_parts,
                                "Relevant long-term memory context:\n"
                                    \o format_memory_context(rm.ret))
                    ELSE req[p].context_parts
       IN  req' = [req EXCEPT
                     ![p].context_parts = parts,
                     ![p].ret = IF parts # <<>> THEN Join("\n\n", parts) ELSE ""]
    /\ pc' = [pc EXCEPT ![p] = "done"]
    /\ UNCHANGED <<initialized_sessions, history_reads, op, ret, raised, calls>>
    /\ UNCHANGED config_vars
    /\ UNCHANGED adapter_vars

NextConc ==
    \E p \in Requests :
        \/ \E actor_id \in ConcActorIds, session_id \in ConcSessionIds, load \in BOOLEAN :
              Begin(p, actor_id, session_id, load)
        \/ Check(p)
        \/ \E hAnswer \in ConcHistoryAnswers : Load(p, hAnswer)
        \/ Mark(p)
        \/ \E mAnswer \in ConcMemoryAnswers : Finish(p, mAnswer)

SpecConc == Init /\ [][NextConc]_vars

(***************************************************************************)
(* Configuration loading in one process, from its start: nothing cached,   *)
(* any state of the config files.                                          *)
(***************************************************************************)
InitConfig ==
    /\ initialized_sessions = <<>>
    /\ history_reads = <<>>
    /\ op = Idle
    /\ ret = FALSE
    /\ raised = FALSE
    /\ calls = <<>>
    /\ pc = [p \in Requests |-> "idle"]
    /\ req = [p \in Requests |-> NoRequest]
    /\ files \in [ConfigPaths -> FileStates]
    /\ cached_config = NoConfig
    /\ cached_path = NoPath
    /\ config_log = <<>>
    /\ config_ret = NoConfigOp
    /\ AdaptersAtImport

\* MemoryConfig(config_path) (lines 50-57).
NewMemoryConfig(path) ==
    /\ Len(config_log) < MaxConfigs
    /\ LET r == load_config_result(cached_config, cached_path, files, path)
       IN  /\ cached_config' = r.cached_config
           /\ cached_path' = r.cached_path
           /\ config_log' = Append(config_log, LogEntry(path, r))
           /\ config_ret' = [name |-> "MemoryConfig", path |-> path, raised |-> r.raised,
                             stage |-> IF r.raised = "" THEN "" ELSE "load"]
    /\ UNCHANGED files
    /\ UNCHANGED manager_vars
    /\ UNCHANGED adapter_vars

\* instance.memory_id, for the instance built by the i-th construction.
ReadMemoryId(i) ==
    /\ i \in DOMAIN config_log
    /\ config_log[i].raised = ""
    /\ LET r == memory_id_result(cached_config)
       IN  config_ret' = [name |-> "memory_id", instance |-> i, path |-> config_log[i].path,
                          raised |-> r.raised, value |-> r.value]
    /\ UNCHANGED <<cached_config, cached_path, files, config_log>>
    /\ UNCHANGED manager_vars
    /\ UNCHANGED adapter_vars

\* MemoryManager.__init__ (lines 183-195): MemoryConfig() on the default path,
\* MemoryClient(), then the log line that reads memory_id.  No store call is
\* made by the constructor.
NewMemoryManager ==
    /\ Len(config_log) < MaxConfigs
    /\ LET r == load_config_result(cached_config, cached_path, files, DefaultConfigPath)
           m == memory_id_result(r.cached_config)
       IN  /\ cached_config' = r.cached_config
           /\ cached_path' = r.cached_path
           /\ config_log' = Append(config_log, LogEntry(DefaultConfigPath, r))
           /\ config_ret' =
                 IF r.raised # ""
                 THEN [name |-> "MemoryManager", path |-> DefaultConfigPath,
                       raised |-> r.raised, stage |-> "load"]
                 ELSE [name |-> "MemoryManager", path |-> DefaultConfigPath,
                       raised |-> m.raised,
                       stage |-> IF m.raised = "" THEN "" ELSE "memory_id"]
    /\ UNCHANGED files
    /\ UNCHANGED manager_vars
    /\ UNCHANGED adapter_vars

NextConfig ==
    \/ \E path \in ConfigPaths : NewMemoryConfig(path)
    \/ \E i \in 1..MaxConfigs : ReadMemoryId(i)
    \/ NewMemoryManager

SpecConfig == InitConfig /\ [][NextConfig]_vars

(***************************************************************************)
(* The normalizer on its own: _convert_messages_for_storage (and its copy  *)
(* convert_pydantic_messages_for_storage in main.py) applied to batches of *)
(* every input shape.                                                      *)
(***************************************************************************)
NormMessages ==
    RawMessages \cup
    { DictMsg(TRUE, PyStr("tool output"), TRUE, "tool"),
      DictMsg(TRUE, PyInt(7), FALSE, ""),
      PartsMsg(TRUE, "request", FALSE,
               << Part(TRUE, PyStr("look"), "user-prompt"), Part(TRUE, PyObj, "user-prompt"),
                  Part(TRUE, PyStr("again"), "user-prompt") >>),
      PartsMsg(TRUE, "request", FALSE,
               << Part(FALSE, PyNone, "tool-call"), Part(TRUE, PyStr("result"), "tool-return") >>),
      PartsMsg(TRUE, "summary", FALSE, << Part(TRUE, PyStr("recap"), "text") >>),
      PartsMsg(FALSE, "", TRUE, << Part(TRUE, PyStr("untyped reply"), "text") >>),
      PartsMsg(FALSE, "", FALSE, << Part(TRUE, PyStr("untyped"), "text") >>),
      PartsMsg(TRUE, "request", FALSE, <<>>) }
NormBatches == SeqsUpTo(NormMessages, MaxBatch)

ConvertMessagesForStorage(messages) ==
    /\ op = Idle
    /\ op' = [name |-> "convert_messages_for_storage", messages |-> messages]
    /\ ret' = convert_messages_for_storage(messages)
    /\ raised' = FALSE
    /\ calls' = <<>>
    /\ UNCHANGED <<initialized_sessions, history_reads, pc, req>>
    /\ UNCHANGED config_vars
    /\ UNCHANGED adapter_vars

NextNorm ==
    \/ Return
    \/ \E messages \in NormBatches : ConvertMessagesForStorage(messages)

SpecNorm == Init /\ [][NextNorm]_vars

(***************************************************************************)
(* get_memory_context for actor and session ids that contain the ':' the   *)
(* session key is built with.                                              *)
(***************************************************************************)
KeyActorIds == {"u1", "u1:s1"}
KeySessionIds == {"s2", "s1:s2"}

NextKeys ==
    \/ Return
    \/ \E actor_id \in KeyActorIds, session_id \in KeySessionIds,
          load \in BOOLEAN, retrieve \in BOOLEAN, hAnswer \in HistoryAnswers :
          GetMemoryContext("apples?", actor_id, session_id, load, retrieve, hAnswer, NoAnswer)

SpecKeys == Init /\ [][NextKeys]_vars

(***************************************************************************)
(* The Pydantic AI adapter: store_pydantic_messages_in_memory (main.py).   *)
(* The converted pairs are taken two at a time, and each two are handed to *)
(* store_conversation as (user_input, response); a last pair without a     *)
(* partner is handed over with response="".  outcomes[k] is the outcome of *)
(* the store write of the k-th store_conversation call, should it make one.*)
(***************************************************************************)
RECURSIVE StoredConversations(_, _, _, _, _)
StoredConversations(messages_to_store, k, actor_id, session_id, outcomes) ==
    IF messages_to_store = <<>> THEN <<>>
    ELSE IF Len(messages_to_store) = 1
    THEN << store_conversation_result(messages_to_store[1][1], PyStr(""),
                                      actor_id, session_id, outcomes[k]) >>
    ELSE << store_conversation_result(messages_to_store[1][1], messages_to_store[2][1],
                                      actor_id, session_id, outcomes[k]) >>
         \o StoredConversations(SubSeq(messages_to_store, 3, Len(messages_to_store)), k + 1,
                                actor_id, session_id, outcomes)

RECURSIVE CallsOf(_)
CallsOf(results) == IF results = <<>> THEN <<>> ELSE Head(results).calls \o CallsOf(Tail(results))

store_pydantic_messages_result(new_messages, actor_id, session_id, outcomes) ==
    IF new_messages = <<>>
    THEN Returned(TRUE, <<>>)
    ELSE LET messages_to_store == convert_messages_for_storage(new_messages)
         IN  IF messages_to_store # <<>>
             THEN Returned(TRUE, CallsOf(StoredConversations(messages_to_store, 1, actor_id,
                                                             session_id, outcomes)))
             ELSE Returned(FALSE, <<>>)

PydanticActorIds == {"my-user-id", "u1"}
PydanticSessionIds == {"DEFAULT", "s1"}
WriteOutcomes == [1..MaxBatch -> Outcomes]

StorePydanticMessages(new_messages, actor_id, session_id, outcomes) ==
    LET r == store_pydantic_messages_result(new_messages, actor_id, session_id, outcomes)
    IN  /\ op = Idle
        /\ op' = [name |-> "store_pydantic_messages_in_memory", new_messages |-> new_messages,
                  actor_id |-> actor_id, session_id |-> session_id, outcomes |-> outcomes]
        /\ ret' = r.ret
        /\ raised' = r.raised
        /\ calls' = r.calls
        /\ UNCHANGED <<initialized_sessions, history_reads, pc, req>>
        /\ UNCHANGED config_vars
        /\ UNCHANGED adapter_vars

NextPydantic ==
    \/ Return
    \/ \E new_messages \in Batches, actor_id \in PydanticActorIds,
          session_id \in PydanticSessionIds, outcomes \in WriteOutcomes :
          StorePydanticMessages(new_messages, actor_id, session_id, outcomes)

SpecPydantic == Init /\ [][NextPydantic]_vars

(***************************************************************************)
(* The Strands adapter (agent.py and its hooks).  The module keeps one     *)
(* agent for the process, created by the first request.  An agent is its   *)
(* state (actor_id, session_id) and its system prompt, kept here as the    *)
(* sequence of the pieces appended to it with += (<<>> is None).           *)
(* What the framework does during Agent(...) and agent(user_message) is    *)
(* not in the repository: the construction runs on_agent_initialized, and  *)
(* a call runs on_before_invocation, adds messages (on_message_added for   *)
(* each), may call the retrieve_memories tool, and returns or raises; the  *)
(* messages, the tool call and the outcome are inputs of the call.         *)
(***************************************************************************)
DEFAULT_ACTOR_ID == "my-user-id"
DEFAULT_SESSION_ID == "DEFAULT"

\* payload.get(key, default); payload.has is the key set of the payload.
PayloadGet(payload, key, default) == IF key \in payload.has THEN payload[key] ELSE default

\* context.session_id if context and context.session_id else payload.get("session_id", ...)
\* (context_session = "" stands for no context or no session id in it).
RequestSession(payload, context_session) ==
    IF context_session # "" THEN context_session
    ELSE PayloadGet(payload, "session_id", DEFAULT_SESSION_ID)

\* payload.get("prompt", "Explain what you can do for me.")
UserMessageOf(payload) == PayloadGet(payload, "prompt", "Explain what you can do for me.")

\* create_agent: memory_config.memory_id for the hooks, then Agent(...), whose
\* construction runs ShortMemoryHook.on_agent_initialized.
create_agent_result(cache, actor_id, session_id, hAnswer) ==
    LET init == on_agent_initialized_result(PyNone, actor_id, session_id, hAnswer)
    IN  IF memory_id_result(cache).raised # ""
        THEN [raised |-> TRUE, calls |-> <<>>, agent |-> PyNone]
        ELSE IF init.raised
        THEN [raised |-> TRUE, calls |-> init.calls, agent |-> PyNone]
        ELSE [raised |-> FALSE, calls |-> init.calls,
              agent |-> [t |-> "agent", actor_id |-> actor_id, session_id |-> session_id,
                         system_prompt |-> IF init.ret = PyNone THEN <<>> ELSE <<init.ret.s>>]]

\* LongTermMemoryHook.on_before_invocation: the system prompt after it and the
\* store calls it made.  last_message is agent.messages[-1] (has = {} for an
\* empty message list).
on_before_invocation_result(the_agent, last_message, mAnswer) ==
    IF last_message.has = {} \/ PayloadGet(last_message, "role", "") # "USER"
          \/ PayloadGet(last_message, "content", "") = ""
    THEN [system_prompt |-> the_agent.system_prompt, calls |-> <<>>]
    ELSE LET rm == retrieve_memories_for_actor(the_agent.actor_id, last_message.content, mAnswer)
         IN  [system_prompt |->
                 IF rm.ret # <<>>
                 THEN Append(the_agent.system_prompt,
                             "\n\nRelevant long-term memory context:\n"
                                 \o format_memory_context(rm.ret))
                 ELSE the_agent.system_prompt,
              calls |-> rm.calls]

\* ShortMemoryHook.on_message_added for the message just added: json.dumps is
\* outside the try, the store write inside it.
on_message_added_result(the_agent, message, outcome) ==
    IF JsonRaises(message.content)
    THEN Raised(<<>>)
    ELSE Returned(FALSE, << CreateEventCall(the_agent.actor_id, the_agent.session_id,
                                            << <<JsonDumps(message.content), message.role>> >>,
                                            outcome) >>)

RECURSIVE MessagesAdded(_, _, _)
MessagesAdded(the_agent, added, outcome) ==
    IF added = <<>> THEN Returned(FALSE, <<>>)
    ELSE LET first == on_message_added_result(the_agent, Head(added), outcome)
             rest == MessagesAdded(the_agent, Tail(added), outcome)
         IN  IF first.raised THEN first
             ELSE [ret |-> FALSE, raised |-> rest.raised, calls |-> first.calls \o rest.calls]

\* agent(user_message): what the hooks and the tool do during one call, as the
\* framework drives them according to `run`.  The retrieve_memories tool
\* (agent.py 43-57) queries for the actor in the state of the module's agent.
agent_call_result(the_agent, user_message, run) ==
    LET before == on_before_invocation_result(the_agent, run.last_message, run.mAnswer)
        added == MessagesAdded(the_agent, run.added, run.outcome)
        tool == IF run.tool_query = "" THEN Returned(<<>>, <<>>)
                ELSE retrieve_memories_for_actor(the_agent.actor_id, run.tool_query, NoAnswer)
    IN  [raised |-> added.raised \/ run.model_raises,
         message |-> "reply to " \o user_message,
         system_prompt |-> before.system_prompt,
         calls |-> before.calls \o added.calls \o (IF added.raised THEN <<>> ELSE tool.calls)]

\* invoke (agent.py 78-104).
strands_invoke_result(the_agent, cache, payload, context_session, hAnswer, run) ==
    LET actor_id == PayloadGet(payload, "actor_id", DEFAULT_ACTOR_ID)
        session_id == RequestSession(payload, context_session)
        created == IF the_agent = PyNone
                   THEN create_agent_result(cache, actor_id, session_id, hAnswer)
                   ELSE [raised |-> FALSE, calls |-> <<>>, agent |-> the_agent]
        user_message == UserMessageOf(payload)
        result == agent_call_result(created.agent, user_message, run)
    IN  IF created.raised
        THEN [ret |-> FALSE, raised |-> TRUE, calls |-> created.calls, agent |-> PyNone,
              runs |-> <<>>, actor_id |-> actor_id, session_id |-> session_id]
        ELSE [ret |-> IF result.raised
                      THEN [error |-> "An error occurred while processing your request"]
                      ELSE [result |-> result.message],
              raised |-> FALSE,
              calls |-> created.calls \o result.calls,
              agent |-> [created.agent EXCEPT !.system_prompt = result.system_prompt],
              runs |-> << [prompt |-> user_message, raised |-> result.raised,
                           message |-> result.message,
                           system_prompt |-> result.system_prompt] >>,
              actor_id |-> actor_id, session_id |-> session_id]

Payloads ==
    { [has |-> h, prompt |-> "apples?", actor_id |-> "u2", session_id |-> "s2"] :
          h \in SUBSET {"prompt", "actor_id", "session_id"} }
ContextSessions == {"", "s1"}
LastMessages ==
    { [has |-> {}, role |-> "", content |-> ""],
      [has |-> {"role", "content"}, role |-> "USER", content |-> "apples?"],
      [has |-> {"role", "content"}, role |-> "assistant", content |-> "sure"] }
AddedMessages ==
    { <<>>,
      << [role |-> "user", content |-> PyStr("hi")], [role |-> "assistant", content |-> PyStr("hello")] >>,
      << [role |-> "user", content |-> PyObj] >> }
StrandsHistoryAnswers == {Answer("ok", d) : d \in HistoryResults}
StrandsMemoryAnswers == {Answer("ok", <<>>), Answer("ok", << Memory("I like apples", <<>>) >>)}
\* The runs of one agent call; an answer or an outcome that the call never
\* asks for is kept at one value.
AgentRuns ==
    { run \in [last_message : LastMessages, mAnswer : StrandsMemoryAnswers,
               added : AddedMessages, outcome : {"ok", "error"},
               tool_query : {"", "pears?"}, model_raises : BOOLEAN] :
          /\ PayloadGet(run.last_message, "role", "") # "USER" => run.mAnswer = NoAnswer
          /\ (run.added = <<>> \/ JsonRaises(run.added[1].content)) => run.outcome = "ok" }

\* The process after import: memory_config = MemoryConfig() loaded a file that
\* parses, with or without memory_id; no agent yet.
InitStrands ==
    /\ initialized_sessions = <<>>
    /\ history_reads = <<>>
    /\ op = Idle
    /\ ret = FALSE
    /\ raised = FALSE
    /\ calls = <<>>
    /\ pc = [p \in Requests |-> "idle"]
    /\ req = [p \in Requests |-> NoRequest]
    /\ \E state \in {"valid", "no_id"} :
           files = [path \in ConfigPaths |-> IF path = DefaultConfigPath THEN state ELSE "missing"]
    /\ cached_config = SomeConfig(FileConfig(DefaultConfigPath, files[DefaultConfigPath]))
    /\ cached_path = DefaultConfigPath
    /\ config_log = << [path |-> DefaultConfigPath, raised |-> "", read |-> TRUE] >>
    /\ config_ret = NoConfigOp
    /\ AdaptersAtImport

StrandsInvoke(payload, context_session, hAnswer, run) ==
    LET r == strands_invoke_result(agent, cached_config, payload, context_session, hAnswer, run)
    IN  /\ op = Idle
        /\ IF agent = PyNone THEN TRUE ELSE Len(agent.system_prompt) < MaxPromptParts
        /\ op' = [name |-> "invoke", adapter |-> "strands", payload |-> payload,
                  context_session |-> context_session, tool_query |-> run.tool_query,
                  actor_id |-> r.actor_id, session_id |-> r.session_id]
        /\ ret' = r.ret
        /\ raised' = r.raised
        /\ calls' = r.calls
        /\ agent' = r.agent
        /\ agent_runs' = r.runs
        /\ UNCHANGED <<initialized_sessions, history_reads, pc, req>>
        /\ UNCHANGED config_vars
        /\ UNCHANGED <<agent_instance, memory_manager>>

\* invoke has returned (or raised) and the server is ready for the next request.
RequestDone ==
    /\ op # Idle
    /\ op' = Idle
    /\ ret' = FALSE
    /\ raised' = FALSE
    /\ calls' = <<>>
    /\ agent_runs' = <<>>
    /\ UNCHANGED <<initialized_sessions, history_reads, pc, req>>
    /\ UNCHANGED config_vars
    /\ UNCHANGED <<agent, agent_instance, memory_manager>>

NextStrands ==
    \/ RequestDone
    \/ \E payload \in Payloads, context_session \in ContextSessions,
          hAnswer \in (IF agent = PyNone THEN StrandsHistoryAnswers ELSE {NoAnswer}),
          run \in AgentRuns :
          StrandsInvoke(payload, context_session, hAnswer, run)

SpecStrands == InitStrands /\ [][NextStrands]_vars

(***************************************************************************)
(* The LlamaIndex adapter (main.py, tools.py).  The module keeps one agent *)
(* and one memory manager, both made by create_agent on the first request  *)
(* that gets that far.  The agent is its system prompt; the manager is the *)
(* default ids it was built with.  The manager's class is outside the      *)
(* sources at hand, so what get_memory_context returns is an input of the  *)
(* request, as are the model's tool call and outcome.                      *)
(***************************************************************************)
\* The fixed text of tools.get_system_prompt(), cut after its first sentence.
get_system_prompt == "You are a helpful AI assistant powered by LlamaIndex and AgentCore."

EnhancedPrompt(memory_context) ==
    get_system_prompt \o "\n\nRelevant context from previous interactions:\n" \o memory_context
        \o "\nPlease use this context to provide more personalized and informed responses."

\* invoke (main.py 113-174), create_agent (72-110) included.  run.creation says
\* where create_agent fails, if it does: before the manager is assigned
\* ("settings") or after it ("agent").
llama_invoke_result(instance, manager, payload, context_session, run) ==
    LET user_input == PayloadGet(payload, "prompt", "Hello! What can you help me with?")
        actor_id == PayloadGet(payload, "actor_id", DEFAULT_ACTOR_ID)
        session_id == RequestSession(payload, context_session)
        creating == instance = PyNone
        manager1 == IF creating /\ run.creation # "settings"
                    THEN [t |-> "manager", default_actor_id |-> actor_id,
                          default_session_id |-> session_id]
                    ELSE manager
        instance1 == IF creating /\ run.creation = "ok"
                     THEN [t |-> "agent", system_prompt |-> get_system_prompt]
                     ELSE instance
        context_call == [call |-> "get_memory_context", user_input |-> user_input,
                         actor_id |-> actor_id, session_id |-> session_id,
                         returned |-> run.memory_context]
        instance2 == IF run.memory_context # ""
                     THEN [instance1 EXCEPT !.system_prompt = EnhancedPrompt(run.memory_context)]
                     ELSE instance1
        tool == IF run.tool_query = "" THEN Returned(<<>>, <<>>)
                ELSE retrieve_memories_for_actor(manager1.default_actor_id, run.tool_query,
                                                 NoAnswer)
        response_text == "reply to " \o user_input
        store_call == [call |-> "store_conversation", user_input |-> user_input,
                       response |-> response_text, actor_id |-> actor_id,
                       session_id |-> session_id]
    IN  IF instance1 = PyNone
        THEN [ret |-> "Error: An error occurred while processing your request: create_agent",
              calls |-> <<>>, instance |-> instance1, manager |-> manager1, runs |-> <<>>,
              actor_id |-> actor_id, session_id |-> session_id]
        ELSE [ret |-> IF run.model_raises
                      THEN "Error: An error occurred while processing your request: run"
                      ELSE response_text,
              calls |-> <<context_call>> \o tool.calls
                            \o (IF run.model_raises THEN <<>> ELSE <<store_call>>),
              instance |-> instance2, manager |-> manager1,
              runs |-> << [prompt |-> user_input, raised |-> run.model_raises,
                           memory_context |-> run.memory_context,
                           system_prompt |-> instance2.system_prompt] >>,
              actor_id |-> actor_id, session_id |-> session_id]

LlamaRuns ==
    [creation : {"ok", "settings", "agent"},
     memory_context : {"", "Recent conversation:\nUSER: hi", "Relevant long-term memories:\n1. I like apples"},
     tool_query : {"", "pears?"}, model_raises : BOOLEAN]

LlamaInvoke(payload, context_session, run) ==
    LET r == llama_invoke_result(agent_instance, memory_manager, payload, context_session, run)
    IN  /\ op = Idle
        /\ agent_instance # PyNone => run.creation = "ok"
        /\ op' = [name |-> "invoke", adapter |-> "llama-index", payload |-> payload,
                  context_session |-> context_session, tool_query |-> run.tool_query,
                  actor_id |-> r.actor_id, session_id |-> r.session_id]
        /\ ret' = r.ret
        /\ raised' = FALSE
        /\ calls' = r.calls
        /\ agent_instance' = r.instance
        /\ memory_manager' = r.manager
        /\ agent_runs' = r.runs
        /\ UNCHANGED <<initialized_sessions, history_reads, pc, req, agent>>
        /\ UNCHANGED config_vars

NextLlama ==
    \/ RequestDone
    \/ \E payload \in Payloads, context_session \in ContextSessions, run \in LlamaRuns :
          LlamaInvoke(payload, context_session, run)

SpecLlama == Init /\ [][NextLlama]_vars

(***************************************************************************)
(* Helpers of the properties.                                              *)
(***************************************************************************)
\* The ids a handler works with after `x or default`.
ResolvedActor(o) == IF o.actor_id = "" THEN "default-user" ELSE o.actor_id
ResolvedSession(o) == IF o.session_id = "" THEN "default-session" ELSE o.session_id
KeyOfOp(o) == ResolvedActor(o) \o ":" \o ResolvedSession(o)

AllPairs ==
    {<<IF a = "" THEN "default-user" ELSE a, IF s = "" THEN "default-session" ELSE s>> :
        a \in ActorIds, s \in SessionIds}
AllKeys == {pr[1] \o ":" \o pr[2] : pr \in AllPairs}

RECURSIVE SumOver(_, _)
SumOver(f, S) ==
    IF S = {} THEN 0
    ELSE LET x == CHOOSE x \in S : TRUE IN f[x] + SumOver(f, S \ {x})

\* How many times get_last_k_turns has been invoked for a session key so far.
ReadsForKey(key) ==
    SumOver(history_reads, {pr \in DOMAIN history_reads : pr[1] \o ":" \o pr[2] = key})

CallsNamed(issued, name) == {i \in DOMAIN issued : issued[i].call = name}

IsWriteOp(o) == o.name \in {"store_conversation", "store_new_messages", "store_facts"}

(***************************************************************************)
(* C1.  Sequential get_memory_context calls on one MemoryManager: for each *)
(* session key, get_last_k_turns is invoked by the first call made with    *)
(* load_conversation_context=true for that key and by no later call (a     *)
(* call reads the history exactly when it asks for it and the key is not   *)
(* yet initialized; a key is initialized exactly when its history has been *)
(* read, which happens at most once), and an initialized key stays         *)
(* initialized.                                                            *)
(***************************************************************************)
C1_ReadOncePerKey ==
    \A key \in AllKeys \cup DOMAIN initialized_sessions :
        /\ ReadsForKey(key) <= 1
        /\ (key \in DOMAIN initialized_sessions /\ initialized_sessions[key])
               <=> ReadsForKey(key) = 1

C1_Step ==
    /\ op'.name = "get_memory_context" =>
          (CallsNamed(calls', "get_last_k_turns") # {}
             <=> (op'.load /\ ReadsForKey(KeyOfOp(op')) = 0))
    /\ \A key \in DOMAIN initialized_sessions :
          initialized_sessions[key] =>
              key \in DOMAIN initialized_sessions' /\ initialized_sessions'[key]

C1_HistoryLoadedOnFirstCallOnly == []C1_ReadOncePerKey /\ [][C1_Step]_vars

\* A later call that asks for the history of an already initialized key and
\* issues no recent-turns read.
C1_Witness ==
    /\ op.name = "get_memory_context"
    /\ op.load
    /\ ReadsForKey(KeyOfOp(op)) = 1
    /\ CallsNamed(calls, "get_last_k_turns") = {}
    /\ initialized_sessions[KeyOfOp(op)]

(***************************************************************************)
(* C2.  As claimed: also when several requests for one (actor, session)    *)
(* run get_memory_context concurrently, get_last_k_turns is invoked at     *)
(* most once for that key.                                                 *)
(***************************************************************************)
C2_AtMostOnceUnderConcurrency ==
    \A key \in AllKeys : ReadsForKey(key) <= 1

(***************************************************************************)
(* C2, amended.  Under concurrency every request invokes get_last_k_turns  *)
(* at most once, and only when the key was not marked initialized at the   *)
(* moment the request tested the flag: a request that tests the flag after *)
(* the key has been marked never reads the history, and a marked key stays *)
(* marked.  Requests that test the flag before the first mark may each     *)
(* read it, so the reads of a key number at most the requests for it.      *)
(***************************************************************************)
RequestsFor(key) ==
    {p \in Requests : pc[p] # "idle" /\ req[p].load /\ RequestKey(req[p]) = key}

C2_ReadsBoundedByRequests ==
    /\ \A p \in Requests : req[p].reads <= 1
    /\ \A key \in AllKeys : ReadsForKey(key) <= Cardinality(RequestsFor(key))

C2_Step ==
    /\ \A p \in Requests :
          (pc[p] = "check" /\ pc'[p] = "load") =>
              (RequestKey(req[p]) \notin DOMAIN initialized_sessions
                  \/ ~initialized_sessions[RequestKey(req[p])])
    /\ \A p \in Requests : req'[p].reads > req[p].reads => pc[p] = "load"
    /\ \A key \in DOMAIN initialized_sessions :
          initialized_sessions[key] =>
              key \in DOMAIN initialized_sessions' /\ initialized_sessions'[key]

C2_NoReadAfterMark == []C2_ReadsBoundedByRequests /\ [][C2_Step]_vars

\* Two requests for one key, both asking for the history: the first read and
\* marked, the second tested the flag afterwards and read nothing.
C2_Witness ==
    \E p, q \in Requests :
        /\ p # q
        /\ pc[p] = "done" /\ pc[q] = "done"
        /\ req[p].load /\ req[q].load
        /\ RequestKey(req[p]) = RequestKey(req[q])
        /\ req[p].reads = 1 /\ req[q].reads = 0

(***************************************************************************)
(* C3.  store_conversation with an empty user_input or an empty response   *)
(* returns False and issues no store call.                                 *)
(***************************************************************************)
C3_EmptySideStoresNothing ==
    (op.name = "store_conversation" /\ (op.user_input = PyStr("") \/ op.response = PyStr("")))
        => (ret = FALSE /\ ~raised /\ calls = <<>>)

C3_Witness ==
    /\ op.name = "store_conversation"
    /\ op.user_input # PyStr("")
    /\ op.response = PyStr("")
    /\ ret = FALSE
    /\ calls = <<>>

(***************************************************************************)
(* C4.  No write path raises to its caller; a failed store call (error or  *)
(* timeout) makes the operation return False; it returns True only when    *)
(* every store call it issued completed without error, and it issued none  *)
(* only for an empty batch or fact list.                                   *)
(***************************************************************************)
C4_WritesNeverRaise ==
    IsWriteOp(op) =>
        /\ ~raised
        /\ ret \in BOOLEAN
        /\ (\E i \in DOMAIN calls : calls[i].outcome \in {"error", "timeout"}) => ret = FALSE
        /\ ret = TRUE =>
              /\ \A i \in DOMAIN calls : calls[i].outcome = "ok"
              /\ calls = <<>> =>
                    \/ op.name = "store_new_messages" /\ op.new_messages = <<>>
                    \/ op.name = "store_facts" /\ op.facts = <<>>

C4_Witness ==
    /\ op.name = "store_facts"
    /\ Len(calls) = 1
    /\ calls[1].outcome = "timeout"
    /\ ret = FALSE
    /\ ~raised

(***************************************************************************)
(* C5.  get_memory_context never surfaces a failed store read: the call    *)
(* does not raise, issues the same reads, marks the same key and returns   *)
(* exactly the string it returns when each failing read answers with an    *)
(* empty result instead.                                                   *)
(***************************************************************************)
AnswerAsEmptyIfFailed(issued, name) ==
    IF CallsNamed(issued, name) = {} THEN NoAnswer
    ELSE LET c == issued[CHOOSE i \in CallsNamed(issued, name) : TRUE]
         IN  IF c.outcome = "ok" THEN Answer("ok", c.returned) ELSE Answer("ok", <<>>)

CallKinds(issued) == [i \in DOMAIN issued |-> issued[i].call]

C5_Step ==
    op'.name = "get_memory_context" =>
        LET expected == get_memory_context_result(
                            initialized_sessions, op'.user_input, op'.actor_id,
                            op'.session_id, op'.load, op'.retrieve,
                            AnswerAsEmptyIfFailed(calls', "get_last_k_turns"),
                            AnswerAsEmptyIfFailed(calls', "retrieve_memories"))
        IN  /\ ~raised'
            /\ ret' = expected.ret
            /\ CallKinds(calls') = CallKinds(expected.calls)
            /\ initialized_sessions' = expected.sessions

C5_ReadFailuresAreEmptyResults == [][C5_Step]_vars

\* The history read timed out, the relevance query was still issued and its
\* memories are the whole result.
C5_Witness ==
    /\ op.name = "get_memory_context"
    /\ Len(calls) = 2
    /\ calls[1].call = "get_last_k_turns" /\ calls[1].outcome = "timeout"
    /\ calls[2].call = "retrieve_memories" /\ calls[2].outcome = "ok"
    /\ ret = "Relevant long-term memory context:\n1. I like apples"
    /\ ~raised

(***************************************************************************)
(* C6.  get_memory_context with load_conversation_context=false and        *)
(* retrieve_relevant_memories=false returns "", issues no store call and   *)
(* leaves the session-initialization tracker as it was.                    *)
(***************************************************************************)
C6_Step ==
    (op'.name = "get_memory_context" /\ ~op'.load /\ ~op'.retrieve) =>
        /\ ret' = ""
        /\ ~raised'
        /\ calls' = <<>>
        /\ initialized_sessions' = initialized_sessions
        /\ history_reads' = history_reads

C6_BothOffIsNoOp == [][C6_Step]_vars

C6_Witness ==
    /\ op.name = "get_memory_context"
    /\ ~op.load /\ ~op.retrieve
    /\ op.user_input # ""
    /\ KeyOfOp(op) \notin DOMAIN initialized_sessions
    /\ \E key \in DOMAIN initialized_sessions : initialized_sessions[key]
    /\ ret = ""

(***************************************************************************)
(* C7.  store_new_messages hands the store exactly the pairs               *)
(* _convert_messages_for_storage produces for the batch, same count and    *)
(* order, in a single create_event under the resolved actor and session    *)
(* (and no event at all when the batch converts to nothing); the event is  *)
(* persisted, and True returned, exactly when that call completes.         *)
(***************************************************************************)
C7_StoredPairsAreConvertedPairs ==
    op.name = "store_new_messages" =>
        LET pairs == convert_messages_for_storage(op.new_messages)
        IN  IF pairs = <<>>
            THEN calls = <<>>
            ELSE /\ Len(calls) = 1
                 /\ calls[1].call = "create_event"
                 /\ calls[1].actor_id = ResolvedActor(op)
                 /\ calls[1].session_id = ResolvedSession(op)
                 /\ Len(calls[1].messages) = Len(pairs)
                 /\ \A i \in DOMAIN pairs : calls[1].messages[i] = pairs[i]
                 /\ ret = (calls[1].outcome = "ok")

\* A two-element batch that converts to three pairs, stored by one event.
C7_Witness ==
    /\ op.name = "store_new_messages"
    /\ Len(op.new_messages) = 2
    /\ Len(calls) = 1
    /\ calls[1].outcome = "ok"
    /\ Len(calls[1].messages) = 3
    /\ calls[1].messages[1][2] = "SYSTEM"
    /\ calls[1].actor_id = "default-user"
    /\ ret = TRUE

(***************************************************************************)
(* C8.  store_conversation with both sides non-empty issues exactly one    *)
(* create_event, whose messages are (user_input, USER) then                *)
(* (response, ASSISTANT), under the resolved actor and session.            *)
(***************************************************************************)
C8_OneEventUserThenAssistant ==
    (op.name = "store_conversation" /\ op.user_input # PyStr("") /\ op.response # PyStr(""))
        => /\ Len(calls) = 1
           /\ calls[1].call = "create_event"
           /\ calls[1].actor_id = ResolvedActor(op)
           /\ calls[1].session_id = ResolvedSession(op)
           /\ calls[1].messages = << <<op.user_input, "USER">>, <<op.response, "ASSISTANT">> >>

C8_Witness ==
    /\ op.name = "store_conversation"
    /\ op.user_input = PyStr("hi")
    /\ op.response = PyStr("hello")
    /\ op.session_id = ""
    /\ Len(calls) = 1
    /\ calls[1].session_id = "default-session"
    /\ ret = TRUE

(***************************************************************************)
(* C9.  store_facts writes one record per input fact, in input order, to   *)
(* namespace /actor/<actor_id>/, and the write does not depend on          *)
(* session_id: the same call with any other session_id issues the same     *)
(* store call.                                                             *)
(***************************************************************************)
C9_FactsAreActorScoped ==
    op.name = "store_facts" =>
        IF op.facts = <<>>
        THEN calls = <<>>
        ELSE /\ Len(calls) = 1
             /\ calls[1].call = "store_memories"
             /\ calls[1].namespace = "/actor/" \o ResolvedActor(op) \o "/"
             /\ Len(calls[1].memories) = Len(op.facts)
             /\ \A i \in DOMAIN op.facts : calls[1].memories[i].content = op.facts[i]
             /\ \A other \in SessionIds \cup {"s1:x"} :
                   store_facts_result(op.facts, op.actor_id, other, op.metadata,
                                      calls[1].outcome).calls = calls

C9_Witness ==
    /\ op.name = "store_facts"
    /\ op.facts = <<"fact A", "fact B">>
    /\ op.actor_id = "u1"
    /\ op.session_id = "s1"
    /\ Len(calls) = 1
    /\ calls[1].namespace = "/actor/u1/"
    /\ Len(calls[1].memories) = 2
    /\ ret = TRUE

(***************************************************************************)
(* C10.  Every record written by store_facts carries metadata              *)
(* type = semantic_fact, whatever metadata the caller supplies.            *)
(***************************************************************************)
C10_EveryFactTaggedSemanticFact ==
    op.name = "store_facts" =>
        \A i \in DOMAIN calls :
            \A j \in DOMAIN calls[i].memories :
                /\ DictHas(calls[i].memories[j].metadata, "type")
                /\ DictGet(calls[i].memories[j].metadata, "type") = "semantic_fact"

(***************************************************************************)
(* C11.  Across any sequence of MemoryConfig constructions, with the same  *)
(* or with different paths, the configuration is loaded from a file at     *)
(* most once, and every memory_id read through any instance is the id of   *)
(* that first load.                                                        *)
(***************************************************************************)
SuccessfulReads == {i \in DOMAIN config_log : config_log[i].read /\ config_log[i].raised = ""}

FirstSuccessfulRead == CHOOSE i \in SuccessfulReads : \A j \in SuccessfulReads : i <= j

C11_LoadedAtMostOnceAndNeverChanges ==
    /\ Cardinality(SuccessfulReads) <= 1
    /\ (config_ret.name = "memory_id" /\ config_ret.raised = "") =>
           LET first == config_log[FirstSuccessfulRead].path
           IN  config_ret.value = DictGet(FileConfig(first, files[first]), "memory_id")

(***************************************************************************)
(* C12.  After a successful load of path P, every later load of P is       *)
(* answered by the cache without reading the file, whatever was loaded in  *)
(* between.                                                                *)
(***************************************************************************)
C12_SamePathNeverReadAgain ==
    \A i \in DOMAIN config_log : \A j \in DOMAIN config_log :
        (i < j /\ config_log[i].raised = "" /\ config_log[j].path = config_log[i].path)
            => ~config_log[j].read

(***************************************************************************)
(* C13.  A construction on a missing path fails in the load with the       *)
(* not-found error, and a construction on a file without memory_id fails   *)
(* in the load too; neither gets as far as a store operation.              *)
(***************************************************************************)
C13_BadConfigFailsInTheLoad ==
    config_ret.name \in {"MemoryConfig", "MemoryManager"} =>
        /\ files[config_ret.path] = "missing" =>
               config_ret.raised = "FileNotFoundError" /\ config_ret.stage = "load"
        /\ files[config_ret.path] = "no_id" =>
               config_ret.raised # "" /\ config_ret.stage = "load"
        /\ calls = <<>>

(***************************************************************************)
(* C14.  The normalizer is fail-soft: an empty batch gives an empty list,  *)
(* no batch makes it raise, and the result is, in input order, the pairs   *)
(* of the elements that convert, an unclassifiable element or one whose    *)
(* conversion fails contributing nothing.                                  *)
(***************************************************************************)
Converting == op.name = "convert_messages_for_storage"

\* The conversion of this element hits an exception (json.dumps on a part).
ElementFails(msg) ==
    /\ msg.shape = "parts"
    /\ \E i \in DOMAIN msg.parts :
          /\ msg.parts[i].hasContent
          /\ ~IsStr(msg.parts[i].content)
          /\ JsonRaises(msg.parts[i].content)

RECURSIVE PairsOfConvertible(_)
PairsOfConvertible(messages) ==
    IF messages = <<>> THEN <<>>
    ELSE (IF ElementFails(Head(messages)) THEN <<>> ELSE ConvertMessage(Head(messages)))
         \o PairsOfConvertible(Tail(messages))

C14_FailSoft ==
    Converting =>
        /\ raised = FALSE
        /\ op.messages = <<>> => ret = <<>>
        /\ ret = PairsOfConvertible(op.messages)

(***************************************************************************)
(* C15.  Every pair the normalizer produces has a role that is one of      *)
(* USER, ASSISTANT, SYSTEM.                                                *)
(***************************************************************************)
C15_RoleIsOneOfThree ==
    Converting => \A i \in DOMAIN ret : ret[i][2] \in {"USER", "ASSISTANT", "SYSTEM"}

(***************************************************************************)
(* C16.  The text of every pair the normalizer produces is a string.       *)
(***************************************************************************)
C16_TextIsAString ==
    Converting => \A i \in DOMAIN ret : IsStr(ret[i][1])

(***************************************************************************)
(* C17.  A multi-part message gives one pair per part that has content,    *)
(* with the role of the table: request + user-prompt USER, request +       *)
(* system-prompt SYSTEM, request + other part USER, response ASSISTANT,    *)
(* any other kind ASSISTANT; a string gives USER; a dict gives its own     *)
(* role, or USER without one.                                              *)
(***************************************************************************)
InRoleTable(msg) == msg.shape \in {"str", "dict"} \/ (msg.shape = "parts" /\ msg.hasKind)

TableRole(kind, part_kind) ==
    IF kind = "request" /\ part_kind = "user-prompt" THEN "USER"
    ELSE IF kind = "request" /\ part_kind = "system-prompt" THEN "SYSTEM"
    ELSE IF kind = "request" THEN "USER"
    ELSE "ASSISTANT"

RECURSIVE TableRolesOfParts(_, _)
TableRolesOfParts(kind, parts) ==
    IF parts = <<>> THEN <<>>
    ELSE (IF Head(parts).hasContent THEN <<TableRole(kind, Head(parts).part_kind)>> ELSE <<>>)
         \o TableRolesOfParts(kind, Tail(parts))

TableRolesOf(msg) ==
    IF msg.shape = "str" THEN <<"USER">>
    ELSE IF msg.shape = "dict" THEN << IF msg.hasRole THEN msg.role ELSE "USER" >>
    ELSE TableRolesOfParts(msg.kind, msg.parts)

RECURSIVE TableRoles(_)
TableRoles(messages) ==
    IF messages = <<>> THEN <<>> ELSE TableRolesOf(Head(messages)) \o TableRoles(Tail(messages))

C17_OnePairPerPartWithTableRole ==
    (Converting /\ \A i \in DOMAIN op.messages : InRoleTable(op.messages[i])) =>
        [i \in DOMAIN ret |-> ret[i][2]] = TableRoles(op.messages)

(***************************************************************************)
(* C18.  get_memory_context returns the non-empty blocks only, the         *)
(* conversation-history block before the relevant-memory block, with       *)
(* exactly one blank line between them when both are present, and "" when  *)
(* neither is.                                                             *)
(***************************************************************************)
IndexOfCall(name) == CHOOSE i \in DOMAIN calls : calls[i].call = name
Issued(name) == \E i \in DOMAIN calls : calls[i].call = name
AnswerOf(c) == Answer(c.outcome, c.returned)

\* The history text of this call ("" when it read none) and the memories it found.
LoadedHistory ==
    IF Issued("get_last_k_turns")
    THEN LET c == calls[IndexOfCall("get_last_k_turns")]
         IN  load_conversation_context(c.actor_id, c.session_id, AnswerOf(c)).ret
    ELSE ""

FoundMemories ==
    IF Issued("retrieve_memories")
    THEN LET c == calls[IndexOfCall("retrieve_memories")]
         IN  IF Failed(c.outcome) THEN <<>> ELSE c.returned
    ELSE <<>>

ConversationBlock == "Recent conversation:\n" \o LoadedHistory
RelevantBlock == "Relevant long-term memory context:\n" \o format_memory_context(FoundMemories)

C18_NonEmptyBlocksInOrder ==
    (op.name = "get_memory_context" /\ ~raised) =>
        ret = IF LoadedHistory # "" /\ FoundMemories # <<>>
              THEN ConversationBlock \o "\n\n" \o RelevantBlock
              ELSE IF LoadedHistory # "" THEN ConversationBlock
              ELSE IF FoundMemories # <<>> THEN RelevantBlock
              ELSE ""

C18_Witness ==
    /\ op.name = "get_memory_context"
    /\ Len(calls) = 2
    /\ ret = "Recent conversation:\nUSER: hi\nASSISTANT: hello\n\n"
                 \o "Relevant long-term memory context:\n1. I like apples"

(***************************************************************************)
(* C19.  The history block lists the turns oldest-first, the reverse of    *)
(* the order the store returned them in; the messages of a turn keep their *)
(* order; every message that could be read is there exactly once, as a     *)
(* line "ROLE: text".                                                      *)
(***************************************************************************)
Readable(message) == "role" \in message.has /\ "content" \in message.has
ReadableMessages(turn) == SelectSeq(turn, Readable)

\* The readable messages of the turns, last turn of the store's answer first.
RECURSIVE OldestFirst(_)
OldestFirst(turns) ==
    IF turns = <<>> THEN <<>>
    ELSE OldestFirst(Tail(turns)) \o ReadableMessages(Head(turns))

ManagerLines(turns) ==
    [k \in DOMAIN OldestFirst(turns) |->
        OldestFirst(turns)[k].role \o ": " \o StrOf(DecodedContent(OldestFirst(turns)[k].content))]

AgentLines(turns) ==
    [k \in DOMAIN OldestFirst(turns) |->
        OldestFirst(turns)[k].role \o ": " \o StrOf(OldestFirst(turns)[k].content)]

HistoryWasRead ==
    /\ Issued("get_last_k_turns")
    /\ ~Failed(calls[IndexOfCall("get_last_k_turns")].outcome)
    /\ OldestFirst(calls[IndexOfCall("get_last_k_turns")].returned) # <<>>

TurnsRead == calls[IndexOfCall("get_last_k_turns")].returned

MetadataSuffix(metadata) ==
    IF metadata = <<>> THEN ""
    ELSE " (Metadata: "
             \o Join(", ", [k \in DOMAIN metadata |-> metadata[k][1] \o ": " \o metadata[k][2]])
             \o ")"

RECURSIVE NumberedLinesFrom(_, _)
NumberedLinesFrom(n, memories) ==
    IF memories = <<>> THEN ""
    ELSE "\n" \o ToString(n) \o ". " \o Head(memories).content
              \o MetadataSuffix(Head(memories).metadata)
              \o NumberedLinesFrom(n + 1, Tail(memories))

C20_RelevantMemoriesOnly ==
    (op.name = "get_memory_context" /\ ~raised /\ LoadedHistory = "" /\ FoundMemories # <<>>) =>
        ret = "Relevant long-term memory context:" \o NumberedLinesFrom(1, FoundMemories)

C20_Witness ==
    /\ op.name = "get_memory_context"
    /\ Len(calls) = 2
    /\ calls[1].call = "get_last_k_turns" /\ calls[1].outcome = "ok" /\ calls[1].returned = <<>>
    /\ calls[2].call = "retrieve_memories" /\ calls[2].outcome = "ok"
    /\ ret = "Relevant long-term memory context:\n1. I like apples\n"
                 \o "2. Lives in Rome (Metadata: type: semantic_fact, source: chat)"

(***************************************************************************)
(* C21.  When relevance retrieval is requested with a non-empty user input *)
(* and the store answers with an empty list, the relevant-memory part of   *)
(* the result of get_memory_context is the sentinel line                   *)
(* 'No relevant memories found.' (under its label, or on its own).         *)
(***************************************************************************)
EmptyRelevanceAnswer ==
    /\ op.name = "get_memory_context"
    /\ op.retrieve /\ op.user_input # ""
    /\ Issued("retrieve_memories")
    /\ calls[IndexOfCall("retrieve_memories")].outcome = "ok"
    /\ calls[IndexOfCall("retrieve_memories")].returned = <<>>

SentinelParts ==
    { "No relevant memories found.",
      "Relevant long-term memory context:\nNo relevant memories found." }

C21_EmptyResultGivesSentinel ==
    EmptyRelevanceAnswer =>
        \E part \in SentinelParts :
            ret = IF LoadedHistory # "" THEN ConversationBlock \o "\n\n" \o part ELSE part

(***************************************************************************)
(* C22.  No retry: one invocation of a core operation attempts each store  *)
(* operation at most once, whether it succeeds or fails: get_memory_context*)
(* at most one get_last_k_turns and one retrieve_memories,                 *)
(* store_conversation and store_new_messages at most one create_event,     *)
(* store_facts at most one store_memories.                                 *)
(***************************************************************************)
AtMostOne(name) == Cardinality(CallsNamed(calls, name)) <= 1
OnlyCalls(names) == \A i \in DOMAIN calls : calls[i].call \in names

C22_EachStoreOperationAtMostOnce ==
    /\ op.name = "get_memory_context" =>
          /\ OnlyCalls({"get_last_k_turns", "retrieve_memories"})
          /\ AtMostOne("get_last_k_turns")
          /\ AtMostOne("retrieve_memories")
    /\ op.name \in {"store_conversation", "store_new_messages"} =>
          OnlyCalls({"create_event"}) /\ AtMostOne("create_event")
    /\ op.name = "store_facts" =>
          OnlyCalls({"store_memories"}) /\ AtMostOne("store_memories")

\* Both reads of one get_memory_context failed, and each was issued once.
C22_Witness ==
    /\ op.name = "get_memory_context"
    /\ Len(calls) = 2
    /\ calls[1].call = "get_last_k_turns" /\ calls[1].outcome = "error"
    /\ calls[2].call = "retrieve_memories" /\ calls[2].outcome = "error"
    /\ ret = ""

(***************************************************************************)
(* C24.  The first get_memory_context call that asks for the history of a  *)
(* session key marks the key initialized whatever the read gave (an error, *)
(* a timeout, nothing), and once a key is marked no later call reads its   *)
(* history again, whatever the store would answer.                         *)
(***************************************************************************)
Marked(key) == key \in DOMAIN initialized_sessions /\ initialized_sessions[key]

C24_Step ==
    \A key \in AllKeys :
        /\ (/\ op'.name = "get_memory_context"
            /\ KeyOfOp(op') = key
            /\ CallsNamed(calls', "get_last_k_turns") # {})
              => (key \in DOMAIN initialized_sessions' /\ initialized_sessions'[key])
        /\ Marked(key) =>
              /\ key \in DOMAIN initialized_sessions' /\ initialized_sessions'[key]
              /\ ReadsForKey(key)' = ReadsForKey(key)
              /\ (op'.name = "get_memory_context" /\ KeyOfOp(op') = key)
                    => CallsNamed(calls', "get_last_k_turns") = {}

C24_MarkedWhateverTheReadGave == [][C24_Step]_vars

\* The history read timed out and the key is marked all the same.
C24_Witness ==
    /\ op.name = "get_memory_context"
    /\ op.load
    /\ Len(calls) >= 1
    /\ calls[1].call = "get_last_k_turns" /\ calls[1].outcome = "timeout"
    /\ Marked(KeyOfOp(op))
    /\ ReadsForKey(KeyOfOp(op)) = 1

(***************************************************************************)
(* C25.  Initialization is tracked per (actor, session) pair: a pair is    *)
(* marked initialized only by a history load of its own, never by the      *)
(* priming of a different pair, so every pair that has asked for its       *)
(* history has had its own history load.                                   *)
(***************************************************************************)
KeyPairs == {<<a, s>> : a \in KeyActorIds, s \in KeySessionIds}
PairReads(pair) == IF pair \in DOMAIN history_reads THEN history_reads[pair] ELSE 0

C25_TrackedPerPair ==
    /\ \A pair \in KeyPairs :
          IsInitialized(initialized_sessions, SessionKeyOf(pair[1], pair[2]))
              => PairReads(pair) >= 1
    /\ (op.name = "get_memory_context" /\ op.load)
          => PairReads(<<op.actor_id, op.session_id>>) >= 1

(***************************************************************************)
(* C26.  store_pydantic_messages_in_memory persists the pairs that         *)
(* convert_pydantic_messages_for_storage produces for the batch: as many,  *)
(* in the same order, with the same text and role, the last pair of an     *)
(* odd-length list included, stored as a user message.                     *)
(***************************************************************************)
StoringPydantic == op.name = "store_pydantic_messages_in_memory"

RECURSIVE PersistedPairs(_)
PersistedPairs(issued) ==
    IF issued = <<>> THEN <<>>
    ELSE (IF Head(issued).call = "create_event" /\ ~Failed(Head(issued).outcome)
          THEN Head(issued).messages ELSE <<>>)
         \o PersistedPairs(Tail(issued))

AllWritesSucceed == \A k \in DOMAIN op.outcomes : op.outcomes[k] = "ok"

C26_PersistsTheConvertedPairs ==
    (StoringPydantic /\ AllWritesSucceed) =>
        LET converted == convert_messages_for_storage(op.new_messages)
            persisted == PersistedPairs(calls)
        IN  /\ Len(persisted) = Len(converted)
            /\ \A i \in DOMAIN converted :
                  /\ persisted[i][1] = converted[i][1]
                  /\ \/ persisted[i][2] = converted[i][2]
                     \/ (i = Len(converted) /\ Len(converted) % 2 = 1
                            /\ persisted[i][2] = "USER")

(***************************************************************************)
(* C27.  For a non-empty batch store_pydantic_messages_in_memory returns   *)
(* True only when every store_conversation call it made reported success.  *)
(***************************************************************************)
ConversationResults ==
    StoredConversations(convert_messages_for_storage(op.new_messages), 1,
                        op.actor_id, op.session_id, op.outcomes)

C27_TrueOnlyIfEveryCallSucceeded ==
    (StoringPydantic /\ op.new_messages # <<>> /\ ret = TRUE) =>
        \A k \in DOMAIN ConversationResults : ConversationResults[k].ret = TRUE

(***************************************************************************)
(* C23.  The Strands invoke calls the agent exactly once per request, with *)
(* payload['prompt'] or the default prompt when the payload has none, and  *)
(* returns {'result': <agent message>}, or the fixed error dictionary when *)
(* the agent call raises; it never propagates an exception.                *)
(***************************************************************************)
StrandsInvoked == op.name = "invoke" /\ op.adapter = "strands"

C23_InvokeCallsTheAgentOnce ==
    StrandsInvoked =>
        /\ ~raised
        /\ Len(agent_runs) = 1
        /\ agent_runs[1].prompt = (IF "prompt" \in op.payload.has THEN op.payload.prompt
                                   ELSE "Explain what you can do for me.")
        /\ ret = IF agent_runs[1].raised
                 THEN [error |-> "An error occurred while processing your request"]
                 ELSE [result |-> agent_runs[1].message]

(***************************************************************************)
(* C28.  In the Strands adapter every message-added event of a request is  *)
(* written under the actor_id and session_id of that request, and the      *)
(* retrieve_memories tool queries the namespace of that request's actor,   *)
(* whatever ids the earlier requests of the process carried.               *)
(***************************************************************************)
C28_HooksUseTheRequestIds ==
    StrandsInvoked =>
        \A i \in DOMAIN calls :
            /\ calls[i].call = "create_event" =>
                   /\ calls[i].actor_id = op.actor_id
                   /\ calls[i].session_id = op.session_id
            /\ (calls[i].call = "retrieve_memories" /\ calls[i].query = op.tool_query) =>
                   calls[i].namespace = NamespaceOf(op.actor_id)

(***************************************************************************)
(* C30.  The system prompt of the Strands agent holds at most one          *)
(* 'Relevant long-term memory context' block, however many invocations     *)
(* the agent has served.                                                   *)
(***************************************************************************)
IsLongTermBlock(piece) ==
    \E answer \in StrandsMemoryAnswers :
        /\ answer.data # <<>>
        /\ piece = "\n\nRelevant long-term memory context:\n" \o format_memory_context(answer.data)

LongTermBlocks == {i \in DOMAIN agent.system_prompt : IsLongTermBlock(agent.system_prompt[i])}

C30_AtMostOneLongTermBlock == agent # PyNone => Cardinality(LongTermBlocks) <= 1

(***************************************************************************)
(* C29.  In the LlamaIndex adapter the system prompt in effect while the   *)
(* agent runs for a request holds memory context only from that request's  *)
(* own get_memory_context result (none when that result is empty), and the *)
(* retrieve_memories tool queries the namespace of the request's actor.    *)
(***************************************************************************)
LlamaInvoked == op.name = "invoke" /\ op.adapter = "llama-index"

C29_PromptFromThisRequestOnly ==
    (LlamaInvoked /\ agent_runs # <<>>) =>
        /\ agent_runs[1].system_prompt =
               (IF agent_runs[1].memory_context # ""
                THEN EnhancedPrompt(agent_runs[1].memory_context)
                ELSE get_system_prompt)
        /\ \A i \in DOMAIN calls :
               (calls[i].call = "retrieve_memories" /\ calls[i].query = op.tool_query) =>
                   calls[i].namespace = NamespaceOf(op.actor_id)

====
